---- MODULE Spec2Model ----
(***************************************************************************)
(* A model of the LC-3 virtual machine of src/main.c: the register file,   *)
(* the memory array, the program loader, the fetch/dispatch loop of main   *)
(* and the handlers op_add, op_ldi, update_flags, sign_extend, mem_read.   *)
(*                                                                         *)
(* Spec     is the program: main from its entry to the execution loop.     *)
(* SpecOps  applies one handler (op_add, op_ldi, update_flags) to a        *)
(*          register file and memory drawn from a bounded set of inputs.   *)
(* SpecFn   applies one pure function (sign_extend, mem_read, swap16) to   *)
(*          arguments drawn from a bounded set of inputs.                  *)
(* SpecAll  is the union of the runs of Spec and of SpecOps.                *)
(***************************************************************************)
EXTENDS Integers, Sequences, FiniteSets, TLC

VARIABLES
  file,     \* the program file: given (argc >= 2), opens (fopen succeeds),
            \* words (its content as big-endian 16-bit words, origin first)
  memory,   \* uint16_t memory[MEMORY_MAX]: the non-zero cells, address -> word
  reg,      \* uint16_t reg[R_COUNT]
  running,  \* main's local `running`
  instr,    \* main's local `instr`, the word last fetched
  pc,       \* position of the process: "start", "loop", "exit0", "exit1",
            \* "exit2"; "call" / "ret" around a single handler call
  call,     \* the last call recorded: the loop's mem_read, or the call made
            \* by SpecOps / SpecFn; its name and arguments
  ret       \* the value that call returned

vars == <<file, memory, reg, running, instr, pc, call, ret>>

----------------------------------------------------------------------------
(* Program constants *)

MEMORY_MAX == 65536

R_R0 == 0
R_R7 == 7
R_PC == 8
R_COND == 9
R_COUNT == 10

OP_BR == 0
OP_ADD == 1
OP_LD == 2
OP_ST == 3
OP_JSR == 4
OP_AND == 5
OP_LDR == 6
OP_STR == 7
OP_RTI == 8
OP_NOT == 9
OP_LDI == 10
OP_STI == 11
OP_JMP == 12
OP_RES == 13
OP_LEA == 14
OP_TRAP == 15

FL_POS == 1
FL_ZRO == 2
FL_NEG == 4

PC_START == 12288     \* 0x3000

----------------------------------------------------------------------------
(* Fixed-width arithmetic *)

Pow2(n) == 2 ^ n

\* conversion of an int result to uint16_t
U16(x) == x % 65536

\* x >> n on a non-negative value
Shr(x, n) == x \div Pow2(n)

\* x << n on an int (no truncation: the operand has been promoted to int)
Shl(x, n) == x * Pow2(n)

\* x & (2^n - 1): the masks 0x1, 0x7, 0x1F, 0x1FF of the handlers
LowBits(x, n) == x % Pow2(n)

RECURSIVE BitOr(_, _)
BitOr(a, b) ==
  IF a = 0 THEN b
  ELSE IF b = 0 THEN a
  ELSE (IF a % 2 = 1 \/ b % 2 = 1 THEN 1 ELSE 0)
       + 2 * BitOr(a \div 2, b \div 2)

----------------------------------------------------------------------------
(* Memory: the array is zero-initialised; the variable holds the cells     *)
(* whose word is not zero.                                                 *)

EmptyMemory == << >>

Mem(m, a) == IF a \in DOMAIN m THEN m[a] ELSE 0

MemStore(m, a, v) ==
  IF v = 0
  THEN [x \in (DOMAIN m) \ {a} |-> m[x]]
  ELSE [x \in (DOMAIN m) \cup {a} |-> IF x = a THEN v ELSE m[x]]

\* mem_read returning the stored word
mem_read_stored(m, addr) == Mem(m, addr)

mem_read(m, addr) == 0

\* mem_read latching a word into the cell it reads, as a device register would
mem_read_memory_latch(m, addr) == MemStore(m, addr, 1)

\* the memory array after mem_read(addr): the function stores nothing
mem_read_memory(m, addr) == m

----------------------------------------------------------------------------
(* Handlers *)

\* update_flags with |= in place of =: the new flag is added to the old one
update_flags_or(rg, r) ==
  IF rg[r] = 0 THEN [rg EXCEPT ![R_COND] = BitOr(@, FL_ZRO)]
  ELSE IF Shr(rg[r], 15) # 0 THEN [rg EXCEPT ![R_COND] = BitOr(@, FL_NEG)]
  ELSE [rg EXCEPT ![R_COND] = BitOr(@, FL_POS)]

\* update_flags testing bit 16 in place of bit 15
update_flags_bit16(rg, r) ==
  IF rg[r] = 0 THEN [rg EXCEPT ![R_COND] = FL_ZRO]
  ELSE IF Shr(rg[r], 16) # 0 THEN [rg EXCEPT ![R_COND] = FL_NEG]
  ELSE [rg EXCEPT ![R_COND] = FL_POS]

update_flags(rg, r) ==
  IF rg[r] = 0 THEN [rg EXCEPT ![R_COND] = FL_ZRO]
  ELSE IF Shr(rg[r], 15) # 0 THEN [rg EXCEPT ![R_COND] = FL_NEG]
  ELSE [rg EXCEPT ![R_COND] = FL_POS]

\* sign_extend testing bit bit_count in place of bit bit_count - 1
sign_extend_nextbit(x, bit_count) ==
  IF LowBits(Shr(x, bit_count), 1) = 1
  THEN U16(BitOr(x, Shl(65535, bit_count)))
  ELSE x

sign_extend(x, bit_count) ==
  IF LowBits(Shr(x, bit_count - 1), 1) = 1
  THEN U16(BitOr(x, Shl(65535, bit_count)))
  ELSE x

\* the destination register field read with a 4-bit mask (bits 12-9)
dr_4bit(ins) == LowBits(Shr(ins, 9), 4)

\* uint16_t dr = (instr >> 9) & 0x7
dr(ins) == LowBits(Shr(ins, 9), 3)

\* uint16_t sr1 = (instr >> 6) & 0x7
sr1(ins) == LowBits(Shr(ins, 6), 3)

\* uint16_t sr2 = instr & 0x7
sr2(ins) == LowBits(ins, 3)

\* op_add using imm5 without sign extension
op_add_zeroext(rg, ins) ==
  LET imm_mode == LowBits(Shr(ins, 5), 1)
      imm5 == LowBits(ins, 5)
      written == IF imm_mode # 0
                 THEN [rg EXCEPT ![dr(ins)] = U16(rg[sr1(ins)] + imm5)]
                 ELSE [rg EXCEPT ![dr(ins)] = U16(rg[sr1(ins)] + rg[sr2(ins)])]
  IN update_flags(written, dr(ins))

\* op_add without the closing update_flags(dr)
op_add_noflags(rg, ins) ==
  LET imm_mode == LowBits(Shr(ins, 5), 1)
      imm5 == sign_extend(LowBits(ins, 5), 5)
  IN IF imm_mode # 0
     THEN [rg EXCEPT ![dr(ins)] = U16(rg[sr1(ins)] + imm5)]
     ELSE [rg EXCEPT ![dr(ins)] = U16(rg[sr1(ins)] + rg[sr2(ins)])]

\* op_add accumulating into the source register: reg[sr1] += ..., then a copy
op_add_wrsrc(rg, ins) ==
  LET imm_mode == LowBits(Shr(ins, 5), 1)
      imm5 == sign_extend(LowBits(ins, 5), 5)
      sum == IF imm_mode # 0
             THEN U16(rg[sr1(ins)] + imm5)
             ELSE U16(rg[sr1(ins)] + rg[sr2(ins)])
      written == [[rg EXCEPT ![sr1(ins)] = sum] EXCEPT ![dr(ins)] = sum]
  IN update_flags(written, dr(ins))

op_add(rg, ins) ==
  LET imm_mode == LowBits(Shr(ins, 5), 1)
      imm5 == sign_extend(LowBits(ins, 5), 5)
      written == IF imm_mode # 0
                 THEN [rg EXCEPT ![dr(ins)] = U16(rg[sr1(ins)] + imm5)]
                 ELSE [rg EXCEPT ![dr(ins)] = U16(rg[sr1(ins)] + rg[sr2(ins)])]
  IN update_flags(written, dr(ins))

op_ldi(rg, m, ins) ==
  LET pc_offset == sign_extend(LowBits(ins, 9), 9)
      written == [rg EXCEPT
                    ![dr(ins)] = mem_read(m, mem_read(m, U16(rg[R_PC] + pc_offset)))]
  IN update_flags(written, dr(ins))

\* the memory array after op_ldi: that of its two mem_read calls
op_ldi_memory(rg, m, ins) ==
  LET pc_offset == sign_extend(LowBits(ins, 9), 9)
      inner == U16(rg[R_PC] + pc_offset)
      m1 == mem_read_memory(m, inner)
  IN mem_read_memory(m1, mem_read(m, inner))

----------------------------------------------------------------------------
(* Loader *)

\* swap16 returning the int expression without the conversion to uint16_t
swap16_notrunc(x) == BitOr(Shl(x, 8), Shr(x, 8))

swap16(x) == U16(BitOr(Shl(x, 8), Shr(x, 8)))

\* fread of one uint16_t on the little-endian host: the file's first byte
\* (the high byte of the big-endian word) becomes the low byte
fread16(w) == (w % 256) * 256 + (w \div 256)

RECURSIVE StoreWords(_, _, _, _)
StoreWords(m, start, ws, n) ==
  IF n = 0 THEN m
  ELSE StoreWords(MemStore(m, start + (n - 1), ws[n]), start, ws, n - 1)

read_prog_file(m, f) ==
  LET origin == swap16(IF Len(f) >= 1 THEN fread16(f[1]) ELSE 0)
      max_read == U16(MEMORY_MAX - origin)
      avail == IF Len(f) >= 1 THEN Len(f) - 1 ELSE 0
      read == IF avail < max_read THEN avail ELSE max_read
      swapped == [i \in 1..read |-> swap16(fread16(f[i + 1]))]
  IN StoreWords(m, origin, swapped, read)

\* main without the assignment to reg[R_PC]
main_init_nopc(rg) == [rg EXCEPT ![R_COND] = FL_ZRO]

main_init(rg) == [rg EXCEPT ![R_COND] = FL_ZRO, ![R_PC] = PC_START]

----------------------------------------------------------------------------
(* Bounds and inputs *)

MaxWords == 2

\* TRAP x25 (HALT), the reserved opcode 13, JSR +5
WordVals == {61477, 53248, 18437}

\* load origins: the start address, the last address, address 0
Origins == {12288, 65535, 0}

RECURSIVE SeqsUpTo(_, _)
SeqsUpTo(S, n) ==
  IF n = 0 THEN {<< >>}
  ELSE LET shorter == SeqsUpTo(S, n - 1)
       IN shorter \cup {Append(s, x) : s \in {t \in shorter : Len(t) = n - 1},
                                        x \in S}

NoArg == [given |-> FALSE, opens |-> FALSE, words |-> << >>]

NoFile == [given |-> TRUE, opens |-> FALSE, words |-> << >>]

\* the stream after read_prog has closed it
Closed == [given |-> TRUE, opens |-> TRUE, words |-> << >>]

Images ==
  {<< >>} \cup {<<o>> \o ws : o \in Origins, ws \in SeqsUpTo(WordVals, MaxWords)}

Files ==
  {NoArg, NoFile} \cup {[given |-> TRUE, opens |-> TRUE, words |-> w] : w \in Images}

ZeroReg == [i \in 0..(R_COUNT - 1) |-> 0]

NoCall == [fn |-> "none", a |-> 0, b |-> 0]

----------------------------------------------------------------------------
(* Spec: the program *)

Init ==
  /\ file \in Files
  /\ memory = EmptyMemory
  /\ reg = ZeroReg
  /\ running = FALSE
  /\ instr = 0
  /\ pc = "start"
  /\ call = NoCall
  /\ ret = 0

\* main, argc < 2: usage message, exit(2)
MainUsage ==
  /\ pc = "start"
  /\ ~file.given
  /\ pc' = "exit2"
  /\ UNCHANGED <<file, memory, reg, running, instr, call, ret>>

\* main, read_prog fails to open the file: exit(1)
MainLoadFail ==
  /\ pc = "start"
  /\ file.given
  /\ ~file.opens
  /\ pc' = "exit1"
  /\ UNCHANGED <<file, memory, reg, running, instr, call, ret>>

\* main, read_prog succeeds: the image is stored, the file closed, R_COND and
\* R_PC set, running = TRUE
MainStart ==
  /\ pc = "start"
  /\ file.given
  /\ file.opens
  /\ memory' = read_prog_file(memory, file.words)
  /\ file' = Closed
  /\ reg' = main_init(reg)
  /\ running' = TRUE
  /\ pc' = "loop"
  /\ UNCHANGED <<instr, call, ret>>

\* the switch of the execution loop applied to the fetched word
dispatch(rg, m, ins) ==
  LET op == Shr(ins, 12)
  IN CASE op = OP_ADD -> op_add(rg, ins)
       [] op = OP_LDI -> op_ldi(rg, m, ins)
       [] OTHER -> rg

\* ++reg[R_PC] in place of reg[R_PC]++
fetch_preinc(rg) ==
  [addr |-> U16(rg[R_PC] + 1), rg |-> [rg EXCEPT ![R_PC] = U16(rg[R_PC] + 1)]]

\* reg[R_PC]++ : the address handed to mem_read, and the registers afterwards
fetch(rg) ==
  [addr |-> rg[R_PC], rg |-> [rg EXCEPT ![R_PC] = U16(rg[R_PC] + 1)]]

\* one iteration of while (running): fetch, increment, dispatch
Step ==
  /\ pc = "loop"
  /\ running
  /\ LET f == fetch(reg)
         fetched == mem_read(memory, f.addr)
     IN /\ call' = [fn |-> "mem_read", a |-> f.addr, b |-> 0]
        /\ ret' = fetched
        /\ instr' = fetched
        /\ memory' = mem_read_memory(memory, f.addr)
        /\ reg' = dispatch(f.rg, memory', fetched)
  /\ running' = running
  /\ pc' = IF running' THEN "loop" ELSE "exit0"
  /\ UNCHANGED file

Next == MainUsage \/ MainLoadFail \/ MainStart \/ Step

Spec == Init /\ [][Next]_vars

----------------------------------------------------------------------------
(* SpecOps: one call of a handler on a drawn register file and memory *)

\* register values: 0, 1, 5, 0x7FFF, 0x8000, 0xFFFF, 0x1234, 0x4000
BaseVals == <<0, 1, 5, 32767, 32768, 65535, 4660, 16384>>

\* R0..R7 hold the eight values rotated by k, so that every register takes
\* every value and no two registers are equal
RegFile(k, p, c) ==
  [i \in 0..(R_COUNT - 1) |->
     IF i <= R_R7 THEN BaseVals[((i + k) % 8) + 1]
     ELSE IF i = R_PC THEN p
     ELSE c]

\* values of R_PC at the call: 0x3000, 0xFFFF
TestPCs == {12288, 65535}

\* memory[0x3004] = 0x4000, memory[0x4000] = 0x1234, memory[0x0003] = 0x3004
IndirectMemory == (12292 :> 16384) @@ (16384 :> 4660) @@ (3 :> 12292)

TestMemories == {EmptyMemory, IndirectMemory}

\* every instruction word with the given opcode
WordsOf(op) == {op * 4096 + low : low \in 0..4095}

InitOps ==
  /\ file = Closed
  /\ memory \in TestMemories
  /\ \E k \in 0..7, p \in TestPCs, c \in {FL_POS, FL_ZRO, FL_NEG} :
       reg = RegFile(k, p, c)
  /\ running = TRUE
  /\ instr = 0
  /\ pc = "call"
  /\ call = NoCall
  /\ ret = 0

OpAddCall ==
  /\ pc = "call"
  /\ \E w \in WordsOf(OP_ADD) :
       /\ call' = [fn |-> "op_add", a |-> w, b |-> 0]
       /\ reg' = op_add(reg, w)
  /\ pc' = "ret"
  /\ UNCHANGED <<file, memory, running, instr, ret>>

OpLdiCall ==
  /\ pc = "call"
  /\ \E w \in WordsOf(OP_LDI) :
       /\ call' = [fn |-> "op_ldi", a |-> w, b |-> 0]
       /\ reg' = op_ldi(reg, memory, w)
       /\ memory' = op_ldi_memory(reg, memory, w)
  /\ pc' = "ret"
  /\ UNCHANGED <<file, running, instr, ret>>

UpdateFlagsCall ==
  /\ pc = "call"
  /\ \E r \in R_R0..R_R7 :
       /\ call' = [fn |-> "update_flags", a |-> r, b |-> 0]
       /\ reg' = update_flags(reg, r)
  /\ pc' = "ret"
  /\ UNCHANGED <<file, memory, running, instr, ret>>

NextOps == OpAddCall \/ OpLdiCall \/ UpdateFlagsCall

SpecOps == InitOps /\ [][NextOps]_vars

----------------------------------------------------------------------------
(* SpecFn: one call of a pure function on drawn arguments *)

\* the field widths the instruction set sign-extends
BitCounts == {5, 6, 9, 11}

InitFn ==
  /\ file = Closed
  /\ memory \in TestMemories
  /\ reg = ZeroReg
  /\ running = TRUE
  /\ instr = 0
  /\ pc = "call"
  /\ call = NoCall
  /\ ret = 0

SignExtendCall ==
  /\ pc = "call"
  /\ \E bc \in BitCounts :
       \E x \in 0..(Pow2(bc) - 1) :
         /\ call' = [fn |-> "sign_extend", a |-> x, b |-> bc]
         /\ ret' = sign_extend(x, bc)
  /\ pc' = "ret"
  /\ UNCHANGED <<file, memory, reg, running, instr>>

MemReadCall ==
  /\ pc = "call"
  /\ \E addr \in 0..(MEMORY_MAX - 1) :
       /\ call' = [fn |-> "mem_read", a |-> addr, b |-> 0]
       /\ ret' = mem_read(memory, addr)
       /\ memory' = mem_read_memory(memory, addr)
  /\ pc' = "ret"
  /\ UNCHANGED <<file, reg, running, instr>>

Swap16Call ==
  /\ pc = "call"
  /\ \E x \in 0..65535 :
       /\ call' = [fn |-> "swap16", a |-> x, b |-> 0]
       /\ ret' = swap16(x)
  /\ pc' = "ret"
  /\ UNCHANGED <<file, memory, reg, running, instr>>

NextFn == SignExtendCall \/ MemReadCall \/ Swap16Call

SpecFn == InitFn /\ [][NextFn]_vars

----------------------------------------------------------------------------
(* SpecAll: the program's runs together with the single handler calls *)

InitAll == Init \/ InitOps

NextAll == Next \/ NextOps

SpecAll == InitAll /\ [][NextAll]_vars

----------------------------------------------------------------------------
(* Reference arithmetic the properties are stated in *)

\* bits hi..lo of a word
Field(w, hi, lo) == (w \div Pow2(lo)) % Pow2(hi - lo + 1)

\* the two's-complement value of an n-bit field
Signed(x, n) == IF x >= Pow2(n - 1) THEN x - Pow2(n) ELSE x

\* the flag that describes a 16-bit value
FlagOf(v) == IF v = 0 THEN FL_ZRO ELSE IF v >= 32768 THEN FL_NEG ELSE FL_POS

\* the word the loop is about to fetch: the one stored at the address in R_PC
AtPC == Mem(memory, reg[R_PC])

\* keyboard status and keyboard data registers (0xFE00, 0xFE02)
DeviceAddrs == {65024, 65026}

----------------------------------------------------------------------------
(* Properties *)

\* C1: termination by HALT. Whenever the execution loop takes an iteration
\* from a state whose instruction at R_PC is TRAP x25, the machine is halted
\* afterwards: running is false and the loop is left.
C1_HaltStopsLoop ==
  [][(pc = "loop" /\ AtPC = OP_TRAP * 4096 + 37)
       => (~running' /\ pc' # "loop")]_vars

\* C2: illegal opcode fault. Whenever the execution loop takes an iteration
\* from a state whose instruction at R_PC has opcode 8 (RTI) or 13 (reserved),
\* the loop terminates: it does not go on to the next fetch.
C2_IllegalOpcodeFaults ==
  [][(pc = "loop" /\ Field(AtPC, 15, 12) \in {OP_RTI, OP_RES})
       => pc' # "loop"]_vars

\* C3: ADD result. A call op_add(w) leaves in reg[DR] the sum modulo 2^16 of
\* reg[SR1] and the sign-extended imm5 (bit 5 set) or reg[SR2] (bit 5 clear),
\* the operands being the register values before the call.
C3_AddResult ==
  [][call'.fn = "op_add" =>
       LET w == call'.a
           d == Field(w, 11, 9)
           s1 == Field(w, 8, 6)
           s2 == Field(w, 2, 0)
       IN reg'[d] = IF Field(w, 5, 5) = 1
                    THEN (reg[s1] + Signed(Field(w, 4, 0), 5)) % 65536
                    ELSE (reg[s1] + reg[s2]) % 65536]_vars

\* C3 witness: ADD R0, R1, #-1 (0x107F) with R1 = 5 has returned, R0 = 4 and
\* the flag is POSITIVE.
C3_Witness ==
  /\ pc = "ret"
  /\ call.fn = "op_add"
  /\ call.a = 4223
  /\ reg[1] = 5
  /\ reg[0] = 4
  /\ reg[R_COND] = FL_POS

\* C4: LDI result. A call op_ldi(w) leaves in reg[DR] the word
\* memory[memory[(PC + sign-extended PCoffset9) mod 2^16]], PC being the
\* value of R_PC at the call.
C4_LdiResult ==
  [][call'.fn = "op_ldi" =>
       LET w == call'.a
           d == Field(w, 11, 9)
           at == (reg[R_PC] + Signed(Field(w, 8, 0), 9)) % 65536
       IN reg'[d] = Mem(memory, Mem(memory, at))]_vars

\* C5: memory read. For every address other than the two device registers,
\* mem_read returns the word stored at that address and leaves memory as it
\* was.
C5_MemReadReturnsStored ==
  [][(call'.fn = "mem_read" /\ call'.a \notin DeviceAddrs)
       => (ret' = Mem(memory, call'.a) /\ memory' = memory)]_vars

\* C6: flags follow every register write. When op_add or op_ldi has returned,
\* R_COND is the flag of the value now in the register it wrote: ZERO iff 0,
\* NEGATIVE iff bit 15 is set, POSITIVE otherwise.
C6_FlagsFollowWrite ==
  (pc = "ret" /\ call.fn \in {"op_add", "op_ldi"})
    => reg[R_COND] = FlagOf(reg[Field(call.a, 11, 9)])

\* C6 witness: an ADD has written a value with bit 15 set and the flag is
\* NEGATIVE.
C6_Witness ==
  /\ pc = "ret"
  /\ call.fn = "op_add"
  /\ reg[Field(call.a, 11, 9)] >= 32768
  /\ reg[R_COND] = FL_NEG

\* C7: condition-register invariant. Once R_COND has been initialised (in the
\* execution loop, and before and after any handler call made from such a
\* state) it holds exactly one of FL_POS, FL_ZRO, FL_NEG.
C7_CondIsOneFlag ==
  pc \in {"loop", "exit0", "call", "ret"}
    => reg[R_COND] \in {FL_POS, FL_ZRO, FL_NEG}

\* C7 witness: the loop has run past its first fetch and R_COND is FL_ZRO.
C7_Witness ==
  /\ pc = "loop"
  /\ reg[R_PC] = U16(PC_START + 2)
  /\ reg[R_COND] = FL_ZRO

\* C8: sign_extend. For bit_count in {5, 6, 9, 11} and 0 <= x < 2^bit_count
\* the result is x when bit bit_count-1 of x is clear and
\* x + 2^16 - 2^bit_count when it is set.
C8_SignExtend ==
  (pc = "ret" /\ call.fn = "sign_extend")
    => ret = IF Field(call.a, call.b - 1, call.b - 1) = 0
             THEN call.a
             ELSE call.a + 65536 - Pow2(call.b)

\* C8 witness: sign_extend(0b10001, 5) has returned 0xFFF1.
C8_Witness ==
  /\ pc = "ret"
  /\ call = [fn |-> "sign_extend", a |-> 17, b |-> 5]
  /\ ret = 65521

\* C9: update_flags. A call update_flags(r), r in 0..7, sets R_COND to the
\* flag of reg[r] and changes no other register.
C9_UpdateFlags ==
  [][call'.fn = "update_flags" =>
       reg' = [reg EXCEPT ![R_COND] = FlagOf(reg[call'.a])]]_vars

\* C9 witness: update_flags has returned for a register holding 0x8000 and
\* the flag is NEGATIVE.
C9_Witness ==
  /\ pc = "ret"
  /\ call.fn = "update_flags"
  /\ reg[call.a] = 32768
  /\ reg[R_COND] = FL_NEG

\* C10: JSR long form. When the loop takes an iteration from address A whose
\* instruction is JSR with bit 11 set, afterwards R7 = (A + 1) mod 2^16 and
\* R_PC = (A + 1 + sign-extended PCoffset11) mod 2^16.
C10_JsrLong ==
  [][(pc = "loop" /\ Field(AtPC, 15, 12) = OP_JSR /\ Field(AtPC, 11, 11) = 1)
       => /\ reg'[R_R7] = (reg[R_PC] + 1) % 65536
          /\ reg'[R_PC] =
               (reg[R_PC] + 1 + Signed(Field(AtPC, 10, 0), 11)) % 65536]_vars

\* C11: image load placement. When main has loaded an image with origin word
\* o followed by n words, memory[o + i] is the i-th word for every
\* i < min(n, 65536 - o), including o = 0; words that would fall past 0xFFFF
\* are dropped; every other cell is as it was.
C11_LoadPlacement ==
  [][(pc = "start" /\ pc' = "loop" /\ Len(file.words) >= 1) =>
       LET o == file.words[1]
           n == Len(file.words) - 1
           kept == IF n < 65536 - o THEN n ELSE 65536 - o
       IN \A a \in 0..65535 :
            Mem(memory', a) = IF a >= o /\ a < o + kept
                              THEN file.words[a - o + 2]
                              ELSE Mem(memory, a)]_vars

\* C12: load fault. When the program file cannot be opened, or is too short
\* to supply the origin word, main ends with a non-zero exit status and the
\* execution loop is never entered.
C12_LoadFault ==
  [][(pc = "start" /\ file.given /\ (~file.opens \/ Len(file.words) = 0))
       => pc' \in {"exit1", "exit2"}]_vars

\* C13: swap16 exchanges bytes. For every 16-bit word x the result is a
\* 16-bit word whose low byte is the high byte of x and whose high byte is
\* the low byte of x, and swapping the result gives x back.
C13_Swap16 ==
  (pc = "ret" /\ call.fn = "swap16")
    => /\ ret \in 0..65535
       /\ ret % 256 = call.a \div 256
       /\ ret \div 256 = call.a % 256
       /\ swap16(ret) = call.a

\* C13 witness: swap16(0x1234) has returned 0x3412.
C13_Witness ==
  /\ pc = "ret"
  /\ call.fn = "swap16"
  /\ call.a = 4660
  /\ ret = 13330

\* C14: fetch-then-increment ordering. In every iteration of the loop the
\* address handed to mem_read is the value of R_PC before the increment,
\* R_PC becomes (R_PC + 1) mod 2^16 (0xFFFF wraps to 0, the loop goes on), and
\* the registers afterwards are those the switch produces from the
\* incremented R_PC.
C14_FetchThenIncrement ==
  [][pc = "loop" =>
       /\ call' = [fn |-> "mem_read", a |-> reg[R_PC], b |-> 0]
       /\ reg'[R_PC] = (reg[R_PC] + 1) % 65536
       /\ reg' = dispatch([reg EXCEPT ![R_PC] = (reg[R_PC] + 1) % 65536],
                          memory, instr')
       /\ pc' = "loop"]_vars

\* C14 witness: the loop has fetched from 0xFFFF and R_PC has wrapped to 0.
C14_Witness ==
  /\ pc = "loop"
  /\ call.fn = "mem_read"
  /\ call.a = 65535
  /\ reg[R_PC] = 0

\* C15: memory frame. Once execution has started no iteration of the loop
\* (its mem_read included) and no call of op_add, op_ldi or update_flags
\* changes any memory word.
C15_MemoryFrame ==
  [][(pc \in {"loop", "call"}) => (memory' = memory)]_vars

\* C15 witness: the loop has gone all the way round to 0x2FFF and the image
\* word loaded at 0x3000 is still the only non-zero cell.
C15_Witness ==
  /\ pc = "loop"
  /\ reg[R_PC] = 12287
  /\ DOMAIN memory = {12288}
  /\ memory[12288] = 61477

\* C16: every word the loop fetches is 0x0000 whatever the image holds; in
\* every state of the loop R0..R7 are 0 and R_COND is FL_ZRO, and an iteration
\* changes nothing of the machine but R_PC.
C16_OnlyPCMoves ==
  /\ [](pc = "loop" => /\ instr = 0
                       /\ \A i \in 0..7 : reg[i] = 0
                       /\ reg[R_COND] = FL_ZRO)
  /\ [][pc = "loop" => /\ memory' = memory
                       /\ running' = running
                       /\ \A i \in (0..9) \ {R_PC} : reg'[i] = reg[i]]_vars

\* C16 witness: the loop has passed 0x3000, where the image holds JSR +5, and
\* the word fetched was 0, R7 is 0 and R_PC is 0x3001.
C16_Witness ==
  /\ pc = "loop"
  /\ Mem(memory, 12288) = 18437
  /\ call.a = 12288
  /\ instr = 0
  /\ reg[7] = 0
  /\ reg[R_PC] = 12289

\* C17: the register indices op_add and op_ldi extract lie in 0..7, so a call
\* keeps the register array's index set, leaves R_PC as it was, and R_COND
\* holds what update_flags computes for the destination register.
C17_RegisterIndices ==
  [][call'.fn \in {"op_add", "op_ldi"} =>
       LET w == call'.a
       IN /\ dr(w) \in 0..7
          /\ sr1(w) \in 0..7
          /\ sr2(w) \in 0..7
          /\ DOMAIN reg' = 0..9
          /\ reg'[R_PC] = reg[R_PC]
          /\ reg'[R_COND] = FlagOf(reg'[Field(w, 11, 9)])]_vars

\* C17 witness: op_add(0x1FFF), every field at its maximum, has returned
\* having written R7.
C17_Witness ==
  /\ pc = "ret"
  /\ call.fn = "op_add"
  /\ call.a = 8191
  /\ dr(call.a) = 7
  /\ sr1(call.a) = 7
  /\ reg[R_COND] = FlagOf(reg[7])

\* C18: ADD frame. A call op_add(w) changes only reg[DR] and R_COND: R_PC,
\* the other seven general-purpose registers and memory are as before.
C18_AddFrame ==
  [][call'.fn = "op_add" =>
       /\ \A i \in (0..9) \ {Field(call'.a, 11, 9), R_COND} : reg'[i] = reg[i]
       /\ DOMAIN reg' = DOMAIN reg
       /\ (memory' = memory)]_vars

\* C18 witness: ADD R2, R3, R4 (0x14C4) has returned with R_PC = 0xFFFF, R2
\* the sum and R3 different from it.
C18_Witness ==
  /\ pc = "ret"
  /\ call.fn = "op_add"
  /\ call.a = 5316
  /\ reg[2] = (reg[3] + reg[4]) % 65536
  /\ reg[3] # reg[2]
  /\ reg[R_PC] = 65535

\* C19: start state. For every image that loads, whatever its origin, the
\* loop is entered with R_PC = 0x3000, R_COND = FL_ZRO and R0..R7 = 0, and its
\* first fetch is from 0x3000.
C19_StartState ==
  [][/\ (pc = "start" /\ pc' = "loop")
          => /\ reg'[R_PC] = 12288
             /\ reg'[R_COND] = FL_ZRO
             /\ \A i \in 0..7 : reg'[i] = 0
     /\ (pc = "loop" /\ call.fn = "none")
          => call' = [fn |-> "mem_read", a |-> 12288, b |-> 0]]_vars

\* C19 witness: an image with origin 0xFFFF is loaded and the first fetch has
\* been made from 0x3000.
C19_Witness ==
  /\ pc = "loop"
  /\ Mem(memory, 65535) # 0
  /\ call = [fn |-> "mem_read", a |-> 12288, b |-> 0]
  /\ reg[R_PC] = 12289

====
